---------------------------- MODULE Spec2Model ----------------------------
(***************************************************************************)
(* A model of nlxplain/evaluation/explanation_evaluation.py: the class     *)
(* ExplanationEvalutator (constructor, get_true_rational_tokens,           *)
(* evaluate_explainers, _rank_explainers).                                 *)
(*                                                                         *)
(* Conventions.                                                            *)
(*  - A Python string that the code builds by concatenation (a column      *)
(*    name) is a sequence of string pieces: "the" is <<"the">>, "the.1" is *)
(*    <<"the", ".1">>, "m_r" is <<"m", "_r">>.  Two names are the same     *)
(*    Python string iff they are the same sequence: an input name that     *)
(*    ends in ".<digits>" is written with that ending as a piece of its    *)
(*    own, and no input name ends in "_r".                                 *)
(*  - Python's None for an optional argument is a record with a `given'    *)
(*    flag; a sort direction is one of the strings "True", "False",        *)
(*    "None" (BEST_SORTING_ASCENDING == True / == False / neither).        *)
(*  - A table (pandas DataFrame) is [columns, index, data]: the column     *)
(*    labels, the row labels and the rows (data[i][j]).                    *)
(***************************************************************************)
EXTENDS Integers, Sequences, FiniteSets, TLC

VARIABLES
    evaluation_metrics,      \* constructor argument: [given, list]
    use_plausibility_metrics,\* constructor kwarg
    faithfulness_metrics,    \* self.faithfulness_metrics
    plausibility_metrics,    \* self.plausibility_metrics
    other_measures,          \* self.other_measures
    ctor,                    \* constructor: "new", "loop", "ok", "ValueError", "idle"
    ctor_i,                  \* constructor: position in evaluation_metrics
    original_tokens,         \* get_true_rational_tokens: the words
    rationale_original_tokens,\* get_true_rational_tokens: the word flags
    token_rationale,         \* get_true_rational_tokens: the list being built
    align,                   \* get_true_rational_tokens: "loop", "returned", "idle"
    align_i,                 \* get_true_rational_tokens: position in the zip
    explanations,            \* evaluate_explainers argument (never written)
    true_rationale,          \* evaluate_explainers argument: [given]
    rank_explainer,          \* evaluate_explainers argument
    df_eval,                 \* evaluate_explainers: the working copy
    text_tokens,             \* evaluate_explainers: list(df_eval.columns)
    evaluation_scores,       \* evaluate_explainers: dict of dicts, insertion-ordered
    calls,                   \* log of evaluate_explanation invocations
    pc,                      \* evaluate_explainers: position in the body
    row,                     \* evaluate_explainers: position in explanations.index
    err,                     \* what aborted the call: "none", "metric", "concat"
    result                   \* evaluate_explainers: [returned, table]

ctorVars == <<evaluation_metrics, use_plausibility_metrics, ctor, ctor_i>>
selfVars == <<faithfulness_metrics, plausibility_metrics, other_measures>>
alignVars == <<original_tokens, rationale_original_tokens, token_rationale,
               align, align_i>>
evalVars == <<explanations, true_rationale, rank_explainer, df_eval,
              text_tokens, evaluation_scores, calls, pc, row, err, result>>
vars == <<ctorVars, selfVars, alignVars, evalVars>>

(***************************************************************************)
(* Bounds of the model.                                                    *)
(***************************************************************************)
MaxMetrics == 2      \* longest evaluation_metrics list
MaxWords == 2        \* longest word / flag list given to the aligner
MaxRows == 2         \* most explainer rows in evaluate_explainers
MaxTokens == 3       \* most token columns in the rename pass
MaxRankRows == 3     \* most rows of a table given to _rank_explainers
MaxScore == 2        \* metric scores of a ranked column are in 0..MaxScore

(***************************************************************************)
(* Sequence helpers.                                                       *)
(***************************************************************************)
Range(s) == {s[i] : i \in 1..Len(s)}

SeqsUpTo(S, n) == UNION {[1..k -> S] : k \in 0..n}

IsInjective(s) == \A i, j \in 1..Len(s) : s[i] = s[j] => i = j

Contains(s, x) == \E i \in 1..Len(s) : s[i] = x

RECURSIVE Sum(_)
Sum(s) == IF s = <<>> THEN 0 ELSE Head(s) + Sum(Tail(s))

RECURSIVE Flatten(_)
Flatten(ss) == IF ss = <<>> THEN <<>> ELSE Head(ss) \o Flatten(Tail(ss))

MaxOf(S) == CHOOSE x \in S : \A y \in S : y <= x

MinOf(S) == CHOOSE x \in S : \A y \in S : x <= y

(***************************************************************************)
(* Metric objects.  A metric carries SHORT_NAME, TYPE_METRIC and           *)
(* BEST_SORTING_ASCENDING; isBase is what isinstance(m, BaseEvaluator)     *)
(* answers: TRUE for an instance of a class derived from BaseEvaluator (a  *)
(* concrete metric of the package), FALSE for an object that only          *)
(* implements evaluate_explanation and the three attributes.               *)
(***************************************************************************)
Metric(name, type, asc, base) ==
    [SHORT_NAME |-> name, TYPE_METRIC |-> type,
     BEST_SORTING_ASCENDING |-> asc, isBase |-> base]

\* The six metrics the constructor builds itself when evaluation_metrics is None.
DefaultFaithfulness ==
    << Metric(<<"AOPC_Comprehensiveness_Evaluation">>, "faithfulness", "unspecified", TRUE),
       Metric(<<"AOPC_Sufficiency_Evaluation">>, "faithfulness", "unspecified", TRUE),
       Metric(<<"TauLOO_Evaluation">>, "faithfulness", "unspecified", TRUE) >>

DefaultPlausibility ==
    << Metric(<<"AUPRC_PlausibilityEvaluation">>, "plausibility", "unspecified", TRUE),
       Metric(<<"Tokenf1_PlausibilityEvaluation">>, "plausibility", "unspecified", TRUE),
       Metric(<<"TokenIOU_PlausibilityEvaluation">>, "plausibility", "unspecified", TRUE) >>

\* Objects a caller may put into evaluation_metrics.
CtorPool ==
    { Metric(<<"c_f">>, "faithfulness", "False", TRUE),
      Metric(<<"c_p">>, "plausibility", "False", TRUE),
      Metric(<<"c_o">>, "robustness", "True", TRUE),
      Metric(<<"d_f">>, "faithfulness", "False", FALSE),
      Metric(<<"d_p">>, "plausibility", "True", FALSE),
      Metric(<<"d_o">>, "robustness", "None", FALSE) }

NoMetrics == [given |-> FALSE, list |-> <<>>]

(***************************************************************************)
(* __init__                                                                *)
(***************************************************************************)
\* Line 82: the test that raises ValueError for an element of the list.
Unsupported(m) == m.isBase

\* Lines 84-89: the bucket an accepted element is appended to.
BucketOf(m) ==
    IF m.TYPE_METRIC = "faithfulness" THEN "faithfulness"
    ELSE IF m.TYPE_METRIC = "plausibility" THEN "plausibility"
    ELSE "other"

\* Lines 37-42: the fields after the first statements of the constructor.
CtorInit ==
    /\ evaluation_metrics \in
         {NoMetrics} \cup
         {[given |-> TRUE, list |-> l] : l \in SeqsUpTo(CtorPool, MaxMetrics)}
    /\ use_plausibility_metrics \in BOOLEAN
    /\ faithfulness_metrics = <<>>
    /\ plausibility_metrics = <<>>
    /\ other_measures = <<>>
    /\ ctor = "new"
    /\ ctor_i = 1

\* Lines 43-78: evaluation_metrics is None, the default metrics are built.
CtorDefault ==
    /\ ctor = "new"
    /\ ~evaluation_metrics.given
    /\ faithfulness_metrics' = faithfulness_metrics \o DefaultFaithfulness
    /\ plausibility_metrics' =
         IF use_plausibility_metrics
         THEN plausibility_metrics \o DefaultPlausibility
         ELSE plausibility_metrics
    /\ ctor' = "ok"
    /\ UNCHANGED <<evaluation_metrics, use_plausibility_metrics, ctor_i,
                   other_measures>>
    /\ UNCHANGED <<alignVars, evalVars>>

\* Lines 80-89: one iteration of the loop over evaluation_metrics, or its end.
CtorStep ==
    /\ ctor \in {"new", "loop"}
    /\ evaluation_metrics.given
    /\ IF ctor_i > Len(evaluation_metrics.list)
       THEN /\ ctor' = "ok"
            /\ UNCHANGED <<ctor_i, selfVars>>
       ELSE LET m == evaluation_metrics.list[ctor_i] IN
            IF Unsupported(m)
            THEN /\ ctor' = "ValueError"
                 /\ UNCHANGED <<ctor_i, selfVars>>
            ELSE /\ ctor' = "loop"
                 /\ ctor_i' = ctor_i + 1
                 /\ faithfulness_metrics' =
                      IF BucketOf(m) = "faithfulness"
                      THEN Append(faithfulness_metrics, m)
                      ELSE faithfulness_metrics
                 /\ plausibility_metrics' =
                      IF BucketOf(m) = "plausibility"
                      THEN Append(plausibility_metrics, m)
                      ELSE plausibility_metrics
                 /\ other_measures' =
                      IF BucketOf(m) = "other"
                      THEN Append(other_measures, m)
                      ELSE other_measures
    /\ UNCHANGED <<evaluation_metrics, use_plausibility_metrics>>
    /\ UNCHANGED <<alignVars, evalVars>>

\* The registry a finished constructor call leaves for a list of accepted objects.
RECURSIVE Registered(_, _)
Registered(list, bucket) ==
    IF list = <<>> THEN <<>>
    ELSE (IF BucketOf(Head(list)) = bucket THEN <<Head(list)>> ELSE <<>>)
         \o Registered(Tail(list), bucket)

(***************************************************************************)
(* get_true_rational_tokens                                                *)
(***************************************************************************)
\* The words of the model and the sub-word tokens the tokenizer splits each into.
Words == {"", "cat", "running"}

Subwords(t) ==
    IF t = "cat" THEN <<"cat">>
    ELSE IF t = "running" THEN <<"run", "##ning">>
    ELSE <<>>

\* Line 101, self.tokenizer.encode(t): the sub-word tokens between the two
\* special tokens the tokenizer adds.
Encode(t) == <<"[CLS]">> \o Subwords(t) \o <<"[SEP]">>

\* Line 101, the slice [1:-1].
StripSpecialFirstOnly(enc) == SubSeq(enc, 2, Len(enc))

StripSpecial(enc) == SubSeq(enc, 2, Len(enc) - 1)

\* Lines 103-104: rationale_t appended once per token of the word.
Replicate(rationale_t, converted_token) ==
    [k \in 1..Len(converted_token) |-> rationale_t]

\* Line 100: zip stops at the shorter of its two arguments.
ZipLen(a, b) == IF Len(a) <= Len(b) THEN Len(a) ELSE Len(b)

AlignInit ==
    /\ original_tokens \in SeqsUpTo(Words, MaxWords)
    /\ rationale_original_tokens \in SeqsUpTo({0, 1}, MaxWords)
    /\ token_rationale = <<>>
    /\ align = "loop"
    /\ align_i = 1

\* Lines 100-105: one iteration of the loop over the zip, or the return.
AlignStep ==
    /\ align = "loop"
    /\ IF align_i > ZipLen(original_tokens, rationale_original_tokens)
       THEN /\ align' = "returned"
            /\ UNCHANGED <<token_rationale, align_i>>
       ELSE LET t == original_tokens[align_i]
                rationale_t == rationale_original_tokens[align_i]
                converted_token == StripSpecial(Encode(t))
            IN  /\ token_rationale' =
                     token_rationale \o Replicate(rationale_t, converted_token)
                /\ align_i' = align_i + 1
                /\ align' = "loop"
    /\ UNCHANGED <<original_tokens, rationale_original_tokens>>
    /\ UNCHANGED <<ctorVars, selfVars, evalVars>>

(***************************************************************************)
(* Tables and dicts.                                                       *)
(***************************************************************************)
Table(columns, index, data) ==
    [columns |-> columns, index |-> index, data |-> data]

NRows(df) == Len(df.index)

\* The positions of the columns labelled c, in column order.
Positions(columns, c) ==
    LET Here(j) == columns[j] = c
    IN  SelectSeq([j \in 1..Len(columns) |-> j], Here)

\* df[c] for a label c that names one column: that column's values, row by row.
Column(df, c) ==
    [i \in 1..NRows(df) |-> df.data[i][Positions(df.columns, c)[1]]]

\* df[c] = values: an existing column c is overwritten, a new one is appended.
SetColumn(df, c, values) ==
    IF Contains(df.columns, c)
    THEN [df EXCEPT !.data =
            [i \in 1..NRows(df) |->
               [j \in 1..Len(df.columns) |->
                  IF df.columns[j] = c THEN values[i] ELSE df.data[i][j]]]]
    ELSE [df EXCEPT !.columns = Append(df.columns, c),
                    !.data = [i \in 1..NRows(df) |-> Append(df.data[i], values[i])]]

\* df[labels]: for each label in turn, every column that carries it.
SelectColumns(df, labels) ==
    LET pos == Flatten([k \in 1..Len(labels) |-> Positions(df.columns, labels[k])])
    IN  Table([k \in 1..Len(pos) |-> df.columns[pos[k]]],
              df.index,
              [i \in 1..NRows(df) |-> [k \in 1..Len(pos) |-> df.data[i][pos[k]]]])

\* A Python dict: keys in insertion order, and the value of each key.
EmptyDict == [keys |-> <<>>, val |-> <<>>]

HasKey(d, k) == Contains(d.keys, k)

Get(d, k) == d.val[Positions(d.keys, k)[1]]

\* d[k] = v
Put(d, k, v) ==
    IF HasKey(d, k)
    THEN [d EXCEPT !.val[Positions(d.keys, k)[1]] = v]
    ELSE [keys |-> Append(d.keys, k), val |-> Append(d.val, v)]

(***************************************************************************)
(* The rename pass of evaluate_explainers.                                 *)
(***************************************************************************)
\* The text str(cur_count) preceded by a dot, for the counts the model reaches.
Dot(n) == <<".1", ".2", ".3", ".4", ".5", ".6", ".7", ".8", ".9">>[n]

\* counts is a defaultdict(int): a missing key reads 0.
Count(counts, col) == IF HasKey(counts, col) THEN Get(counts, col) ELSE 0

\* The while loop of _maybe_dedup_names for one column: as long as the name
\* has been used, count the use and append ".<count>".
RECURSIVE Mangle(_, _)
Mangle(col, counts) ==
    LET cur_count == Count(counts, col)
    IN  IF cur_count > 0
        THEN Mangle(Append(col, Dot(cur_count)), Put(counts, col, cur_count + 1))
        ELSE [col |-> col, counts |-> counts]

RECURSIVE DedupFrom(_, _, _)
DedupFrom(names, counts, out) ==
    IF names = <<>> THEN out
    ELSE LET r == Mangle(Head(names), counts)
         IN  DedupFrom(Tail(names), Put(r.counts, r.col, 1), Append(out, r.col))

\* A rename that appends the count of earlier uses once, without looking
\* whether the new name is itself taken.
RECURSIVE DedupOnceFrom(_, _, _)
DedupOnceFrom(names, counts, out) ==
    IF names = <<>> THEN out
    ELSE LET col == Head(names)
             cur_count == Count(counts, col)
         IN  DedupOnceFrom(Tail(names), Put(counts, col, cur_count + 1),
                 Append(out, IF cur_count > 0 THEN Append(col, Dot(cur_count)) ELSE col))

MaybeDedupNamesOnce(names) == DedupOnceFrom(names, EmptyDict, <<>>)

\* Lines 123-125: ParserBase(...)._maybe_dedup_names(explanations.columns).
MaybeDedupNames(names) == DedupFrom(names, EmptyDict, <<>>)

\* Line 122: sum(explanations.columns.duplicated()) > 0.
HasDuplicates(columns) == ~IsInjective(columns)

\* Lines 119-125: the working copy with its columns renamed when some repeat.
WorkingCopy(expl) ==
    IF HasDuplicates(expl.columns)
    THEN [expl EXCEPT !.columns = MaybeDedupNames(expl.columns)]
    ELSE expl

(***************************************************************************)
(* _rank_explainers                                                        *)
(***************************************************************************)
\* The values of a in ascending order (argsort followed by a[sorter]).
RECURSIVE Insert(_, _)
Insert(x, s) ==
    IF s = <<>> THEN <<x>>
    ELSE IF x <= Head(s) THEN <<x>> \o s
    ELSE <<Head(s)>> \o Insert(x, Tail(s))

RECURSIVE Sorted(_)
Sorted(a) == IF a = <<>> THEN <<>> ELSE Insert(Head(a), Sorted(Tail(a)))

\* obs.cumsum() at position k of the sorted values: the number of positions up
\* to k that start a run of equal values.
CumDistinct(arr, k) ==
    Cardinality({j \in 1..k : j = 1 \/ arr[j] # arr[j - 1]})

\* rankdata with method="min": one more than the number of smaller values.
MinRank(a) ==
    [i \in 1..Len(a) |-> 1 + Cardinality({j \in 1..Len(a) : a[j] < a[i]})]

\* Line 265/277, scipy.stats.rankdata(a, method="dense").
DenseRank(a) ==
    LET arr == Sorted(a)
    IN  [i \in 1..Len(a) |->
           CumDistinct(arr, CHOOSE k \in 1..Len(arr) : arr[k] = a[i])]

\* An inversion that subtracts from the number of rows alone.
InvertFromLength(a) ==
    LET r == DenseRank(a) IN [i \in 1..Len(a) |-> Len(a) + 1 - r[i]]

\* Lines 265-266: min(len(df_eval[c]), max(r)) + 1 - r.
HigherIsBetterRank(a) ==
    LET r == DenseRank(a)
        top == IF Len(a) <= MaxOf(Range(r)) THEN Len(a) ELSE MaxOf(Range(r))
    IN  [i \in 1..Len(a) |-> top + 1 - r[i]]

\* Line 277.
LowerIsBetterRank(a) == DenseRank(a)

\* f"{c}_r"
RankName(c) == Append(c, "_r")

\* Lines 252-254.
EvaluationMeasures ==
    faithfulness_metrics \o plausibility_metrics \o other_measures

\* Lines 257-262 and 269-274: the short names of the metrics of one direction
\* that have a column in the table.
ShowCols(direction, columns) ==
    LET Shown(m) == m.BEST_SORTING_ASCENDING = direction
                    /\ Contains(columns, m.SHORT_NAME)
        ms == SelectSeq(EvaluationMeasures, Shown)
    IN  [k \in 1..Len(ms) |-> ms[k].SHORT_NAME]

\* Lines 264-266 and 276-277: the rank column of each listed metric is set.
RECURSIVE AddRanks(_, _, _)
AddRanks(df, cs, direction) ==
    IF cs = <<>> THEN df
    ELSE LET c == Head(cs)
             r == IF direction = "False"
                  THEN HigherIsBetterRank(Column(df, c))
                  ELSE LowerIsBetterRank(Column(df, c))
         IN  AddRanks(SetColumn(df, RankName(c), r), Tail(cs), direction)

\* Lines 281-286: score column and rank column of every ranked metric.
ShowColsInOrder(shown) ==
    Flatten([k \in 1..Len(EvaluationMeasures) |->
               LET metric_show == EvaluationMeasures[k].SHORT_NAME
               IN  IF Contains(shown, metric_show)
                   THEN <<metric_show, RankName(metric_show)>>
                   ELSE <<>>])

\* An ordering that drops the columns placed nowhere else.
OutputColsPlacedOnly(score_cols, show_cols, cols) == score_cols \o show_cols

\* Lines 288-292.
OutputCols(score_cols, show_cols, cols) ==
    LET Unplaced(c) == ~Contains(score_cols \o show_cols, c)
    IN  score_cols \o show_cols \o SelectSeq(cols, Unplaced)

\* Lines 246-293.
RankExplainers(df, score_cols) ==
    LET cols == df.columns
        show_higher_cols == ShowCols("False", df.columns)
        df1 == AddRanks(df, show_higher_cols, "False")
        show_lower_cols == ShowCols("True", df1.columns)
        df2 == AddRanks(df1, show_lower_cols, "True")
        show_cols == ShowColsInOrder(show_higher_cols \o show_lower_cols)
    IN  SelectColumns(df2, OutputCols(score_cols, show_cols, cols))

(***************************************************************************)
(* evaluate_explainers                                                     *)
(***************************************************************************)
\* Line 130, explanations.loc[explainer_type].values: a label carried by one
\* row selects that row as a vector; a label carried by several rows selects
\* all of them as a matrix.
Loc(expl, explainer_type) ==
    LET pos == Positions(expl.index, explainer_type)
    IN  [ndim |-> IF Len(pos) = 1 THEN 1 ELSE 2,
         rows |-> [k \in 1..Len(pos) |-> expl.data[pos[k]]]]

\* len() of what Loc returns.
ArgLen(arg) == IF arg.ndim = 1 THEN Len(arg.rows[1]) ELSE Len(arg.rows)

\* evaluate_explanation of a metric on a score vector: a deterministic stand-in
\* for the metrics, which are defined elsewhere in the package.
Evaluate(m, vec) ==
    IF m.TYPE_METRIC = "faithfulness" THEN Sum(vec)
    ELSE IF m.TYPE_METRIC = "plausibility" THEN (2 * Sum(vec)) % 7
    ELSE Sum(vec) + Len(vec)

\* What a metric may return for an argument that is no vector.
OpaqueScores == {0, 1}

\* The values the metrics of a bucket return for one argument.
Returns(bucket, arg) ==
    IF arg.ndim = 1
    THEN {[k \in 1..Len(bucket) |-> Evaluate(bucket[k], arg.rows[1])]}
    ELSE [1..Len(bucket) -> OpaqueScores]

\* Lines 135-145 (152-162, 165-175) for the metrics 1..made of a bucket, of
\* which the first `done' return: the metric's dict is created before the
\* call, the score is stored after it.
RECURSIVE RecordScores(_, _, _, _, _, _, _)
RecordScores(scores, bucket, explainer_type, ret, k, made, done) ==
    IF k > made THEN scores
    ELSE LET name == bucket[k].SHORT_NAME
             s1 == IF HasKey(scores, name) THEN scores
                   ELSE Put(scores, name, EmptyDict)
             s2 == IF k <= done
                   THEN Put(s1, name, Put(Get(s1, name), explainer_type, ret[k]))
                   ELSE s1
         IN  RecordScores(s2, bucket, explainer_type, ret, k + 1, made, done)

\* An exception handling that swallows what a metric raises.
AfterBucketSwallow(raiseAt, nextpc) == nextpc

\* An exception raised by a metric is not caught: it ends the call.
AfterBucket(raiseAt, nextpc) == IF raiseAt = 0 THEN nextpc ELSE "failed"

\* The inner loop over one bucket of metrics for the current row.  raiseAt is
\* the position of the metric that raises (0: none does).
InvokeBucket(bucket, kind, nextpc, nextrow) ==
    LET explainer_type == explanations.index[row]
        soft_score_explanation == Loc(explanations, explainer_type)
        n == Len(bucket)
    IN  \E raiseAt \in 0..n, ret \in Returns(bucket, soft_score_explanation) :
          LET made == IF raiseAt = 0 THEN n ELSE raiseAt
              done == IF raiseAt = 0 THEN n ELSE raiseAt - 1
          IN  /\ calls' = calls \o
                   [k \in 1..made |->
                      [row |-> row, metric |-> bucket[k].SHORT_NAME, kind |-> kind,
                       ndim |-> soft_score_explanation.ndim,
                       len |-> ArgLen(soft_score_explanation),
                       raised |-> (k = raiseAt)]]
              /\ evaluation_scores' =
                   RecordScores(evaluation_scores, bucket, explainer_type, ret,
                                1, made, done)
              /\ pc' = AfterBucket(raiseAt, nextpc)
              /\ row' = IF raiseAt = 0 THEN nextrow ELSE row
              /\ err' = IF raiseAt = 0 THEN err ELSE "metric"

\* Lines 117-127, and the head of the loop of line 129.
CopyAndRename ==
    /\ pc = "start"
    /\ df_eval' = WorkingCopy(explanations)
    /\ text_tokens' = WorkingCopy(explanations).columns
    /\ evaluation_scores' = EmptyDict
    /\ row' = 1
    /\ pc' = IF NRows(explanations) = 0 THEN "concat" ELSE "faithfulness"
    /\ UNCHANGED <<explanations, true_rationale, rank_explainer, calls, err, result>>
    /\ UNCHANGED <<ctorVars, selfVars, alignVars>>

\* Lines 134-145.
EvaluateFaithfulness ==
    /\ pc = "faithfulness"
    /\ InvokeBucket(faithfulness_metrics, "faithfulness", "plausibility", row)
    /\ UNCHANGED <<explanations, true_rationale, rank_explainer, df_eval,
                   text_tokens, result>>
    /\ UNCHANGED <<ctorVars, selfVars, alignVars>>

\* A guard that looks at the registry alone.
PlausibilityRegistered == Len(plausibility_metrics) > 0

\* Line 147.
PlausibilityApplicable ==
    true_rationale.given /\ Len(plausibility_metrics) > 0

\* Lines 147-162.
EvaluatePlausibility ==
    /\ pc = "plausibility"
    /\ InvokeBucket(IF PlausibilityApplicable THEN plausibility_metrics ELSE <<>>,
                    "plausibility", "other", row)
    /\ UNCHANGED <<explanations, true_rationale, rank_explainer, df_eval,
                   text_tokens, result>>
    /\ UNCHANGED <<ctorVars, selfVars, alignVars>>

\* Lines 164-175, and the step of the loop of line 129 to the next row.
EvaluateOther ==
    /\ pc = "other"
    /\ InvokeBucket(other_measures, "other",
                    IF row >= NRows(explanations) THEN "concat" ELSE "faithfulness",
                    row + 1)
    /\ UNCHANGED <<explanations, true_rationale, rank_explainer, df_eval,
                   text_tokens, result>>
    /\ UNCHANGED <<ctorVars, selfVars, alignVars>>

\* pd.DataFrame(evaluation_scores) joined to df on the row labels: each row
\* gets, per metric, the score stored under its label.
JoinScores(df, scores) ==
    Table(df.columns \o scores.keys,
          df.index,
          [i \in 1..NRows(df) |->
             df.data[i] \o [k \in 1..Len(scores.keys) |->
                              Get(scores.val[k], df.index[i])]])

\* Line 177, pd.concat(..., axis=1): an empty score frame is left out of the
\* concatenation; otherwise, with row labels that repeat, pandas either
\* refuses to align the two frames or aligns them label by label.
ConcatOutcomes(df, scores) ==
    IF scores.keys = <<>> \/ IsInjective(df.index)
    THEN {"join"}
    ELSE {"join", "raise"}

\* Line 177.
ConcatScores ==
    /\ pc = "concat"
    /\ \E outcome \in ConcatOutcomes(df_eval, evaluation_scores) :
         /\ df_eval' = IF outcome = "join"
                       THEN JoinScores(df_eval, evaluation_scores)
                       ELSE df_eval
         /\ pc' = IF outcome = "join" THEN "rank" ELSE "failed"
         /\ err' = IF outcome = "join" THEN err ELSE "concat"
    /\ UNCHANGED <<explanations, true_rationale, rank_explainer, text_tokens,
                   evaluation_scores, calls, row, result>>
    /\ UNCHANGED <<ctorVars, selfVars, alignVars>>

\* Lines 181-182.
RankStep ==
    /\ pc = "rank"
    /\ df_eval' = IF rank_explainer
                  THEN RankExplainers(df_eval, text_tokens)
                  ELSE df_eval
    /\ pc' = "return"
    /\ UNCHANGED <<explanations, true_rationale, rank_explainer, text_tokens,
                   evaluation_scores, calls, row, err, result>>
    /\ UNCHANGED <<ctorVars, selfVars, alignVars>>

\* Lines 184-187 (the styled view does not change df_eval).
Return ==
    /\ pc = "return"
    /\ result' = [returned |-> TRUE, table |-> df_eval]
    /\ pc' = "done"
    /\ UNCHANGED <<explanations, true_rationale, rank_explainer, df_eval,
                   text_tokens, evaluation_scores, calls, row, err>>
    /\ UNCHANGED <<ctorVars, selfVars, alignVars>>

(***************************************************************************)
(* Inputs and specifications.                                              *)
(***************************************************************************)
InjSeqsUpTo(S, n) == {l \in SeqsUpTo(S, n) : IsInjective(l)}

EmptyTable == Table(<<>>, <<>>, <<>>)

NotReturned == [returned |-> FALSE, table |-> EmptyTable]

\* The evaluator after __init__ has accepted the list: its three buckets.
Constructed(list) ==
    /\ evaluation_metrics = [given |-> TRUE, list |-> list]
    /\ use_plausibility_metrics = TRUE
    /\ ctor = "ok"
    /\ ctor_i = Len(list) + 1
    /\ faithfulness_metrics = Registered(list, "faithfulness")
    /\ plausibility_metrics = Registered(list, "plausibility")
    /\ other_measures = Registered(list, "other")

\* No call of get_true_rational_tokens is in progress.
AlignIdle ==
    /\ original_tokens = <<>>
    /\ rationale_original_tokens = <<>>
    /\ token_rationale = <<>>
    /\ align = "idle"
    /\ align_i = 1

\* No call of evaluate_explainers is in progress.
EvalIdle ==
    /\ explanations = EmptyTable
    /\ true_rationale = [given |-> FALSE]
    /\ rank_explainer = TRUE
    /\ df_eval = EmptyTable
    /\ text_tokens = <<>>
    /\ evaluation_scores = EmptyDict
    /\ calls = <<>>
    /\ pc = "idle"
    /\ row = 1
    /\ err = "none"
    /\ result = NotReturned

\* The entry of evaluate_explainers for given arguments.
EvalEntry(expl) ==
    /\ explanations = expl
    /\ true_rationale \in {[given |-> TRUE], [given |-> FALSE]}
    /\ rank_explainer \in BOOLEAN
    /\ df_eval = EmptyTable
    /\ text_tokens = <<>>
    /\ evaluation_scores = EmptyDict
    /\ calls = <<>>
    /\ pc = "start"
    /\ row = 1
    /\ err = "none"
    /\ result = NotReturned

\* Metrics that pass the test of line 82, with short names that are no token.
DuckPool == {m \in CtorPool : ~m.isBase}

RankPool ==
    DuckPool \cup { Metric(<<"d_f2">>, "faithfulness", "True", FALSE),
                    Metric(<<"d_o2">>, "robustness", "False", FALSE) }

\* Explainer names; a matrix may carry the same name on several rows.
Labels == {"LIME", "SHAP"}

RowLabel(i) == <<"LIME", "SHAP", "IG", "Gradient", "Random">>[i]

\* Token columns of the explanation matrices of Spec.
EvalColumns ==
    { << <<"the">> >>, << <<"the">>, <<"cat">> >>, << <<"the">>, <<"the">> >> }

\* Token names of the rename pass; "the.1" is a token of the text itself.
TokenNames == { <<"the">>, <<"the", ".1">>, <<"cat">> }

CellVals == {0, 1}

\* The matrix with the given labels whose row i holds 10 * rv[i] + column.
Matrix(columns, index, rv) ==
    Table(columns, index,
          [i \in 1..Len(index) |-> [j \in 1..Len(columns) |-> 10 * rv[i] + j]])

EvalInit ==
    /\ \E l \in InjSeqsUpTo(DuckPool, MaxMetrics) : Constructed(l)
    /\ AlignIdle
    /\ \E columns \in EvalColumns, index \in SeqsUpTo(Labels, MaxRows) :
         \E rv \in [1..Len(index) -> CellVals] :
            EvalEntry(Matrix(columns, index, rv))

DedupInit ==
    /\ \E l \in InjSeqsUpTo(DuckPool, 1) : Constructed(l)
    /\ AlignIdle
    /\ \E columns \in SeqsUpTo(TokenNames, MaxTokens) \ {<<>>}, rv \in CellVals :
         EvalEntry(Matrix(columns, <<"LIME">>, <<rv>>))

\* The scores of the metrics that were evaluated, metric k holding
\* (s[i] + k - 1) % (MaxScore + 1) for row i.
RECURSIVE ScoreDict(_, _, _, _)
ScoreDict(ms, index, s, k) ==
    IF k > Len(ms) THEN EmptyDict
    ELSE LET rest == ScoreDict(ms, index, s, k + 1)
             col == [keys |-> index,
                     val |-> [i \in 1..Len(index) |-> (s[i] + k - 1) % (MaxScore + 1)]]
         IN  [keys |-> <<ms[k].SHORT_NAME>> \o rest.keys,
              val |-> <<col>> \o rest.val]

\* The state in which evaluate_explainers reaches line 181.
RankInit ==
    /\ \E l \in InjSeqsUpTo(RankPool, MaxMetrics) : Constructed(l)
    /\ AlignIdle
    /\ \E n \in 1..MaxRankRows, given \in BOOLEAN :
         \E s \in [1..n -> 0..MaxScore] :
            LET expl == Matrix(<< <<"the">>, <<"cat">> >>, [i \in 1..n |-> RowLabel(i)],
                               [i \in 1..n |-> 0])
                evaluated == faithfulness_metrics
                             \o (IF given THEN plausibility_metrics ELSE <<>>)
                             \o other_measures
                scores == ScoreDict(evaluated, expl.index, s, 1)
            IN  /\ explanations = expl
                /\ true_rationale = [given |-> given]
                /\ rank_explainer = TRUE
                /\ df_eval = JoinScores(expl, scores)
                /\ text_tokens = expl.columns
                /\ evaluation_scores = scores
                /\ calls = Flatten([i \in 1..n |->
                              [k \in 1..Len(evaluated) |->
                                 [row |-> i, metric |-> evaluated[k].SHORT_NAME,
                                  kind |-> BucketOf(evaluated[k]), ndim |-> 1,
                                  len |-> Len(expl.columns), raised |-> FALSE]]])
                /\ pc = "rank"
                /\ row = n + 1
                /\ err = "none"
                /\ result = NotReturned

CtorSpecInit == CtorInit /\ AlignIdle /\ EvalIdle

AlignSpecInit == Constructed(<<>>) /\ AlignInit /\ EvalIdle

CtorNext == CtorDefault \/ CtorStep

AlignNext == AlignStep

EvalNext ==
    \/ CopyAndRename
    \/ EvaluateFaithfulness
    \/ EvaluatePlausibility
    \/ EvaluateOther
    \/ ConcatScores
    \/ RankStep
    \/ Return

RankNext == RankStep \/ Return

\* evaluate_explainers on an evaluator built from a list of metrics.
Spec == EvalInit /\ [][EvalNext]_vars

\* evaluate_explainers, its rename pass on token names of every shape.
SpecDedup == DedupInit /\ [][EvalNext]_vars

\* _rank_explainers on tables of every score column.
SpecRank == RankInit /\ [][RankNext]_vars

\* __init__.
SpecInit == CtorSpecInit /\ [][CtorNext]_vars

\* get_true_rational_tokens.
SpecAlign == AlignSpecInit /\ [][AlignNext]_vars

(***************************************************************************)
(* Properties.                                                             *)
(***************************************************************************)
IsRankName(c) == Len(c) > 1 /\ c[Len(c)] = "_r"

ScoreName(c) == SubSeq(c, 1, Len(c) - 1)

Ranked == pc \in {"return", "done"}

\* The number of distinct values of a column that are at most v.
AscendingRank(col, v) == Cardinality({w \in Range(col) : w <= v})

\* The metrics of the registry whose rank column is in the table.
RankedMetrics(direction) ==
    {m \in Range(EvaluationMeasures) :
        /\ m.BEST_SORTING_ASCENDING = direction
        /\ Contains(df_eval.columns, RankName(m.SHORT_NAME))}

\* C1: in every rank column <metric>_r of the table _rank_explainers returns,
\* over N rows with D distinct scores, two rows have the same rank iff they
\* have the same score and the ranks assigned are exactly 1..D, so every rank
\* lies in 1..N and no rank is skipped.
C1_DenseRanks ==
    Ranked =>
      \A c \in Range(df_eval.columns) :
        IsRankName(c) =>
          LET score == Column(df_eval, ScoreName(c))
              r == Column(df_eval, c)
              N == NRows(df_eval)
              D == Cardinality(Range(score))
          IN  /\ \A i, j \in 1..N : (r[i] = r[j]) <=> (score[i] = score[j])
              /\ Range(r) = 1..D
              /\ \A i \in 1..N : r[i] \in 1..N

\* A ranked table with a tie and two distinct scores in three rows, ranked in
\* both directions.
C1_Witness ==
    /\ Ranked
    /\ NRows(df_eval) = 3
    /\ RankedMetrics("False") # {}
    /\ RankedMetrics("True") # {}
    /\ \A m \in RankedMetrics("False") \cup RankedMetrics("True") :
         Cardinality(Range(Column(df_eval, m.SHORT_NAME))) = 2

\* C2: for a metric with BEST_SORTING_ASCENDING = False every row with the
\* maximum score has rank 1, a strictly higher score has a strictly smaller
\* rank, and the rank is min(N, max_rank) + 1 - ascending dense rank; for a
\* metric with BEST_SORTING_ASCENDING = True every row with the minimum score
\* has rank 1 and a strictly lower score has a strictly smaller rank.
C2_DirectionAware ==
    Ranked =>
      /\ \A m \in RankedMetrics("False") :
           LET score == Column(df_eval, m.SHORT_NAME)
               r == Column(df_eval, RankName(m.SHORT_NAME))
               N == NRows(df_eval)
               D == Cardinality(Range(score))
           IN  /\ \A i \in 1..N : score[i] = MaxOf(Range(score)) => r[i] = 1
               /\ \A i, j \in 1..N : score[i] > score[j] => r[i] < r[j]
               /\ \A i \in 1..N :
                    r[i] = (IF N <= D THEN N ELSE D) + 1 - AscendingRank(score, score[i])
      /\ \A m \in RankedMetrics("True") :
           LET score == Column(df_eval, m.SHORT_NAME)
               r == Column(df_eval, RankName(m.SHORT_NAME))
               N == NRows(df_eval)
           IN  /\ \A i \in 1..N : score[i] = MinOf(Range(score)) => r[i] = 1
               /\ \A i, j \in 1..N : score[i] < score[j] => r[i] < r[j]

\* A ranked table in which a higher-is-better metric has tied maxima and a
\* lower score, and a lower-is-better metric is ranked too.
C2_Witness ==
    /\ Ranked
    /\ RankedMetrics("True") # {}
    /\ \E m \in RankedMetrics("False") :
         LET score == Column(df_eval, m.SHORT_NAME)
         IN  /\ Len(score) = 3
             /\ Cardinality({i \in 1..3 : score[i] = MaxOf(Range(score))}) = 2

\* C3: for words and flags of equal length, get_true_rational_tokens returns,
\* in word order, each word's flag once per sub-word token of the word; its
\* length is the sum of the token counts, and a word with no token adds
\* nothing and raises nothing.
C3_AlignedRationale ==
    (align = "returned" /\ Len(original_tokens) = Len(rationale_original_tokens)) =>
      /\ token_rationale =
           Flatten([i \in 1..Len(original_tokens) |->
                      [k \in 1..Len(Subwords(original_tokens[i])) |->
                         rationale_original_tokens[i]]])
      /\ Len(token_rationale) =
           Sum([i \in 1..Len(original_tokens) |-> Len(Subwords(original_tokens[i]))])

\* A finished call on a word of two tokens flagged 1 and a word of no token.
C3_Witness ==
    /\ align = "returned"
    /\ Len(original_tokens) = 2
    /\ Len(rationale_original_tokens) = 2
    /\ \E i \in 1..2 : original_tokens[i] = "running" /\ rationale_original_tokens[i] = 1
    /\ \E i \in 1..2 : original_tokens[i] = ""

IsPrefix(a, b) == Len(a) <= Len(b) /\ SubSeq(b, 1, Len(a)) = a

DotSuffixes == {Dot(n) : n \in 1..9}

\* new is old followed by positional suffixes (none when new = old).
DerivedFrom(new, old) ==
    /\ IsPrefix(old, new)
    /\ \A k \in (Len(old) + 1)..Len(new) : new[k] \in DotSuffixes

Renamed == pc # "start"

\* What every reading of C4 shares: the renamed columns are pairwise distinct
\* and in the positions of the original ones, each name is the original one
\* followed by positional suffixes, a later occurrence of a name is renamed,
\* names that do not repeat are left alone, the cells are unchanged, and all
\* this is so before the score columns are concatenated and after.
RenameCommon ==
    LET orig == explanations.columns
        n == Len(orig)
    IN  /\ Len(text_tokens) = n
        /\ IsInjective(text_tokens)
        /\ \A i \in 1..n : DerivedFrom(text_tokens[i], orig[i])
        /\ \A i \in 1..n :
             (\E j \in 1..(i - 1) : orig[j] = orig[i]) => text_tokens[i] # orig[i]
        /\ IsInjective(orig) => text_tokens = orig
        /\ pc \in {"faithfulness", "plausibility", "other", "concat"} =>
             df_eval = [explanations EXCEPT !.columns = text_tokens]
        /\ pc \in {"rank", "return", "done"} =>
             /\ IsPrefix(text_tokens, df_eval.columns)
             /\ \A i \in 1..NRows(explanations) :
                  IsPrefix(explanations.data[i], df_eval.data[i])

\* C4 (as amended): after the rename pass the column names are pairwise
\* distinct and in the original positions; a column keeps its name exactly
\* when no earlier column's new name equals it, and otherwise (every later
\* occurrence of a name included) gets its original name followed by
\* positional suffixes; the cells are unchanged and the renaming precedes the
\* concatenation of the score columns.
C4_RenameDistinct ==
    Renamed =>
      /\ RenameCommon
      /\ \A i \in 1..Len(text_tokens) :
           (text_tokens[i] = explanations.columns[i])
             <=> ~(\E j \in 1..(i - 1) : text_tokens[j] = explanations.columns[i])

\* C4 (as claimed): as above, with the first occurrence of each name unchanged.
C4_FirstOccurrenceUnchanged ==
    Renamed =>
      /\ RenameCommon
      /\ \A i \in 1..Len(text_tokens) :
           ~(\E j \in 1..(i - 1) : explanations.columns[j] = explanations.columns[i])
             => text_tokens[i] = explanations.columns[i]

\* A finished call on the columns the, the.1, the: the third is renamed twice.
C4_Witness ==
    /\ pc = "done"
    /\ explanations.columns = << <<"the">>, <<"the", ".1">>, <<"the">> >>
    /\ text_tokens[3] = <<"the", ".1", ".1">>
    /\ Len(evaluation_scores.keys) = 1

\* C5: without a ground-truth rationale no plausibility metric is invoked,
\* the skip is no error (a call that fails fails on a raising faithfulness or
\* other metric or in the concatenation of a matrix with repeated row
\* labels), every faithfulness and other metric is evaluated for every row,
\* and the returned table has neither a score column nor a rank column of a
\* plausibility metric.
C5_NoRationaleNoPlausibility ==
    ~true_rationale.given =>
      /\ \A k \in 1..Len(calls) : calls[k].kind # "plausibility"
      /\ \A m \in Range(plausibility_metrics) :
           ~HasKey(evaluation_scores, m.SHORT_NAME)
      /\ pc = "failed" =>
           \/ err = "metric" /\ calls[Len(calls)].raised
           \/ err = "concat" /\ HasDuplicates(explanations.index)
                              /\ evaluation_scores.keys # <<>>
      /\ pc \in {"concat", "rank", "return", "done"} =>
           \A i \in 1..NRows(explanations) :
             \A m \in Range(faithfulness_metrics \o other_measures) :
               \E k \in 1..Len(calls) :
                 calls[k].row = i /\ calls[k].metric = m.SHORT_NAME /\ ~calls[k].raised
      /\ pc = "done" =>
           /\ result.returned
           /\ \A m \in Range(plausibility_metrics) :
                /\ ~Contains(result.table.columns, m.SHORT_NAME)
                /\ ~Contains(result.table.columns, RankName(m.SHORT_NAME))

\* A ranked table returned for two rows by an evaluator that holds a
\* plausibility metric and another metric, called without a rationale.
C5_Witness ==
    /\ pc = "done"
    /\ ~true_rationale.given
    /\ rank_explainer
    /\ Len(plausibility_metrics) = 1
    /\ Len(EvaluationMeasures) = 2
    /\ NRows(explanations) = 2

\* The metrics evaluate_explainers is to evaluate for each row, in order.
Applicable ==
    faithfulness_metrics
    \o (IF true_rationale.given THEN plausibility_metrics ELSE <<>>)
    \o other_measures

\* C6: a list of metric objects that all implement the evaluation operation
\* (instances of classes derived from BaseEvaluator, or objects with the same
\* attributes) is accepted, each object put in list order into the one bucket
\* its TYPE_METRIC names.
C6_ConcreteMetricsAccepted ==
    (evaluation_metrics.given /\ ctor \in {"ok", "ValueError"}) =>
      /\ ctor = "ok"
      /\ faithfulness_metrics = Registered(evaluation_metrics.list, "faithfulness")
      /\ plausibility_metrics = Registered(evaluation_metrics.list, "plausibility")
      /\ other_measures = Registered(evaluation_metrics.list, "other")

\* C7: the call returns a table unless a metric raises; the table has the
\* rows of the input matrix in their order, and in every row the cell of
\* every evaluated metric is what the metric returns for that row's own score
\* vector, also when explainer names repeat.
C7_ScoresByRow ==
    /\ pc = "failed" => err = "metric"
    /\ pc = "done" =>
         /\ result.table.index = explanations.index
         /\ \A i \in 1..NRows(explanations) :
              \A m \in Range(Applicable) :
                /\ Contains(result.table.columns, m.SHORT_NAME)
                /\ Column(result.table, m.SHORT_NAME)[i]
                     = Evaluate(m, explanations.data[i])

\* C9: every score vector handed to a metric is a vector with one value per
\* token column (anything else is refused before the metric is invoked).
C9_VectorPerTokenColumn ==
    \A k \in 1..Len(calls) :
      /\ calls[k].ndim = 1
      /\ calls[k].len = Len(explanations.columns)

\* The invocations a complete run makes, in order: rows in matrix order, and
\* per row the faithfulness, then (with a rationale) the plausibility, then
\* the other metrics.
ExpectedCalls ==
    Flatten([i \in 1..NRows(explanations) |->
               [k \in 1..Len(Applicable) |-> <<i, Applicable[k].SHORT_NAME>>]])

CallPairs == [k \in 1..Len(calls) |-> <<calls[k].row, calls[k].metric>>]

InputCols == text_tokens \o evaluation_scores.keys

IsRankedMetric(m) ==
    /\ m.BEST_SORTING_ASCENDING \in {"True", "False"}
    /\ Contains(evaluation_scores.keys, m.SHORT_NAME)

\* C8: the ranked table holds the token columns in their order, then for each
\* metric with a boolean sort direction and a scored column, in faithfulness,
\* plausibility, other registration order, its score column followed by its
\* rank column, then the remaining columns; every input column is there once
\* with its values, and exactly those metrics have a rank column.
C8_ColumnOrder ==
    Ranked =>
      LET placed == Flatten([k \in 1..Len(EvaluationMeasures) |->
                      IF IsRankedMetric(EvaluationMeasures[k])
                      THEN <<EvaluationMeasures[k].SHORT_NAME,
                             RankName(EvaluationMeasures[k].SHORT_NAME)>>
                      ELSE <<>>])
          Remaining(c) == ~Contains(text_tokens \o placed, c)
      IN  /\ df_eval.columns = text_tokens \o placed \o SelectSeq(InputCols, Remaining)
          /\ \A c \in Range(InputCols) : Len(Positions(df_eval.columns, c)) = 1
          /\ \A c \in Range(text_tokens) :
               Column(df_eval, c) = Column(explanations, c)
          /\ \A c \in Range(evaluation_scores.keys) :
               Column(df_eval, c)
                 = [i \in 1..NRows(df_eval) |->
                      Get(Get(evaluation_scores, c), df_eval.index[i])]
          /\ \A m \in Range(EvaluationMeasures) :
               Contains(df_eval.columns, RankName(m.SHORT_NAME)) <=> IsRankedMetric(m)

\* A ranked table with a ranked other metric listed before a faithfulness
\* metric, or a metric without a sort direction whose column comes last.
C8_Witness ==
    /\ Ranked
    /\ Len(EvaluationMeasures) = 2
    /\ \E m \in Range(EvaluationMeasures) :
         /\ m.BEST_SORTING_ASCENDING = "None"
         /\ df_eval.columns[Len(df_eval.columns)] = m.SHORT_NAME
    /\ \E m \in Range(EvaluationMeasures) : IsRankedMetric(m)

=============================================================================
